---- MODULE Spec2Model ----
(***************************************************************************)
(* Model of grobid-client.py: the command line entry point, process(),     *)
(* process_batch() with its ProcessPoolExecutor, and process_pdf().        *)
(* Paths are sequences of fragments in which every "/", "\" and "." is a    *)
(* fragment of its own, and command-line values are sequences of           *)
(* characters, so that ntpath.basename, os.path.splitext, os.path.join,    *)
(* glob's pattern and int() are computed the way the library computes them.*)
(***************************************************************************)
EXTENDS Integers, Sequences, FiniteSets, Bags, TLC

\* ------------------------------------------------------------------ bounds
MaxFiles == 3        \* most directory entries in the input directory
MaxBatch == 3        \* largest config['batch_size'] tried
MaxRuns == 2         \* how many times the program is started in a row
MaxOld == 1          \* most output files present before the first run

\* ------------------------------------------------------- program constants
DefaultN == 10       \* argparse default of --n
InitialN == 1        \* n = 1 before the try block
ProcessPdfArity == 7 \* positional parameters of process_pdf after self
RetryCallArgs == 2   \* arguments of the recursive call self.process_pdf(pdf_file, output)
StatusOK == 200
StatusOverload == 503

\* ---------------------------------------------------------- string helpers
Last(s) == s[Len(s)]

EndsWith(s, suf) ==
    /\ Len(s) >= Len(suf)
    /\ SubSeq(s, Len(s) - Len(suf) + 1, Len(s)) = suf

\* index of the last element of s that lies in set cs, 0 when there is none
LastIndexIn(s, cs) ==
    LET I == {i \in 1..Len(s) : s[i] \in cs}
    IN  IF I = {} THEN 0 ELSE CHOOSE i \in I : \A j \in I : j <= i

PdfExt == <<".", "pdf">>
TeiExt == <<".", "tei", ".", "xml">>
InputDir == <<"i">>
OutputDir == <<"o">>

\* ntpath.basename: the tail after the last "/" or "\" of the path
NtBasename(p) == SubSeq(p, LastIndexIn(p, {"/", "\\"}) + 1, Len(p))

\* os.path.splitext(p)[0] on a name without "/": cut at the last dot unless
\* only dots precede it (leading dots are not an extension separator)
SplitextRoot(p) ==
    LET dot == LastIndexIn(p, {"."})
    IN  IF dot > 0 /\ \E i \in 1..(dot - 1) : p[i] # "."
        THEN SubSeq(p, 1, dot - 1)
        ELSE p

\* os.path.join(a, b) for a b that does not start with "/"
PathJoin(a, b) ==
    IF Len(b) > 0 /\ b[1] = "/" THEN b
    ELSE IF Len(a) = 0 \/ Last(a) = "/" THEN a \o b
    ELSE a \o <<"/">> \o b

\* process_pdf lines 65-66: the output path of a source path
OutputPath(pdf_file) ==
    PathJoin(OutputDir, SplitextRoot(NtBasename(pdf_file)) \o TeiExt)

\* glob's "*.pdf": the name ends in .pdf and does not start with a dot
GlobMatches(name) == EndsWith(name, PdfExt) /\ name[1] # "."

\* ------------------------------------------------------------------ int()
Digits == {"0", "1", "2", "3", "4", "5", "6", "7", "8", "9"}

DigitVal(c) ==
    CASE c = "0" -> 0 [] c = "1" -> 1 [] c = "2" -> 2 [] c = "3" -> 3
      [] c = "4" -> 4 [] c = "5" -> 5 [] c = "6" -> 6 [] c = "7" -> 7
      [] c = "8" -> 8 [] c = "9" -> 9

RECURSIVE DigitsVal(_)
DigitsVal(s) ==
    IF Len(s) = 0 THEN 0
    ELSE 10 * DigitsVal(SubSeq(s, 1, Len(s) - 1)) + DigitVal(Last(s))

\* does int(s) succeed on the text s: an optional sign and decimal digits
\* (surrounding blanks and "_" separators, which int() also takes, are not drawn)
IsIntLiteral(s) ==
    LET body == IF Len(s) > 0 /\ s[1] \in {"-", "+"} THEN Tail(s) ELSE s
    IN  Len(body) > 0 /\ \A i \in 1..Len(body) : body[i] \in Digits

IntOf(s) ==
    IF s[1] = "-" THEN 0 - DigitsVal(Tail(s))
    ELSE IF s[1] = "+" THEN DigitsVal(Tail(s))
    ELSE DigitsVal(s)

\* ------------------------------------------------------------ input spaces
FileNames ==
    { <<"a", ".", "pdf">>,
      <<"b", ".", "pdf">>,
      <<"d", "\\", "a", ".", "pdf">>,
      <<"a", ".", "txt">> }

OldOutputs == { OutputPath(PathJoin(InputDir, nm)) : nm \in FileNames }

\* values of args.n: absent (the int default) or the text given after --n
ArgNs ==
    { [given |-> FALSE, text |-> <<>>],
      [given |-> TRUE, text |-> <<"0">>],
      [given |-> TRUE, text |-> <<"-", "1">>],
      [given |-> TRUE, text |-> <<"x">>],
      [given |-> TRUE, text |-> <<"2">>] }

\* values of config['batch_size']
BatchSizes == 1..MaxBatch

\* the statuses of the else branch of line 114
OtherStatuses == {404}

Statuses == {StatusOK, StatusOverload} \cup OtherStatuses

AllPaths == { PathJoin(InputDir, nm) : nm \in FileNames }

\* line 66: filename, the output path of each source path
filename == [f \in AllPaths |-> OutputPath(f)]

Terminal == {"skipped", "written", "failed", "raised"}
Active == {"requesting", "writing", "sleeping"}

Range(s) == { s[i] : i \in 1..Len(s) }

\* all orders in which glob may list a set of paths
Orderings(S) ==
    { s \in [1..Cardinality(S) -> S] : \A i, j \in 1..Cardinality(S) : s[i] = s[j] => i = j }

\* content of a file that io.open(..., 'w') has created or truncated and
\* that has not been written yet
Truncated == <<"truncated">>
OldContent == <<"old">>

\* ------------------------------------------------------------------- state
VARIABLES
    args_n,      \* args.n as parsed by argparse
    config,      \* self.config (batch_size)
    error_log,   \* args.error_log
    flags,       \* args.generateIDs, args.consolidate_header, args.consolidate_citations
    input_exists, \* the input directory exists and can be listed
    indir,       \* names of the entries of the input directory
    outdir,      \* output directory: path of each regular file -> content
    pc,          \* position of the main program
    n,           \* the concurrency variable of __main__
    globbed,     \* the list glob.glob returned
    gi,          \* position of the for loop of process() in globbed
    pdf_files,   \* the batch under construction / being processed
    si,          \* position of the for loop of process_batch in pdf_files
    task,        \* state of the process_pdf invocation of each source path
    http,        \* number of POSTs issued for each source path in this run
    sent,        \* the POSTs issued in this run: source path and data fields
    sleeps,      \* number of completed sleeps for each source path in this run
    batches,     \* the pdf_files lists process_batch was called with in this run
    submitted,   \* the source paths handed to executor.submit in this run, in order
    writes,      \* number of io.open(filename, 'w') calls in this run
    clobbered,   \* output paths opened for writing in this run while they existed
    log,         \* bag of errors.log entries <<pdf_file, status>>
    notices,     \* bag of the line-115 console notices of this run, <<printing call, status>>
    run,         \* number of the current program run
    prevOut      \* output directory as the previous run left it

vars == << args_n, config, error_log, flags, input_exists, indir, outdir, pc, n, globbed, gi,
           pdf_files, si, task, http, sent, sleeps, batches, submitted,
           writes, clobbered, log, notices, run, prevOut >>

inputs == << args_n, config, error_log, flags, input_exists, indir >>
mainVars == << pc, n, globbed, gi, pdf_files, si, batches, submitted >>
runVars == << run, prevOut >>

NoTasks == [f \in AllPaths |-> "none"]
Zero == [f \in AllPaths |-> 0]

\* the option flags of the command line: all of them, and none given
FlagChoices ==
    [generateIDs : BOOLEAN, consolidate_header : BOOLEAN, consolidate_citations : BOOLEAN]

NoFlags ==
    [generateIDs |-> FALSE, consolidate_header |-> FALSE, consolidate_citations |-> FALSE]

\* the state when the program is first started with option flags among choices
InitWith(choices) ==
    /\ args_n \in ArgNs
    /\ config \in [batch_size : BatchSizes]
    /\ error_log \in BOOLEAN
    /\ flags \in choices
    /\ input_exists \in BOOLEAN
    /\ indir \in IF input_exists
                  THEN { S \in SUBSET FileNames : Cardinality(S) <= MaxFiles }
                  ELSE { {} }
    /\ \E P \in SUBSET OldOutputs :
          /\ Cardinality(P) <= MaxOld
          /\ outdir = [p \in P |-> OldContent]
    /\ pc = "parse"
    /\ n = InitialN
    /\ globbed = <<>>
    /\ gi = 1
    /\ pdf_files = <<>>
    /\ si = 1
    /\ task = NoTasks
    /\ http = Zero
    /\ sent = {}
    /\ sleeps = Zero
    /\ batches = <<>>
    /\ submitted = <<>>
    /\ writes = 0
    /\ clobbered = {}
    /\ log = EmptyBag
    /\ notices = EmptyBag
    /\ run = 1
    /\ prevOut = outdir

\* runs without option flags (the flags reach nothing but the data fields of
\* the POST)
Init == InitWith({NoFlags})

\* runs with every combination of the option flags
InitOptions == InitWith(FlagChoices)

\* os.path.isfile
IsFile(p) == p \in DOMAIN outdir

InFlight == { f \in AllPaths : task[f] \in Active }

\* --------------------------------------------------------------- __main__
\* variant: the assert of line 144 is missing
ParseArgs_NoAssert ==
    /\ pc = "parse"
    /\ IF ~args_n.given
         THEN n' = DefaultN
         ELSE IF ~IsIntLiteral(args_n.text)
           THEN n' = n
           ELSE n' = IntOf(args_n.text)
    /\ pc' = "glob"
    /\ UNCHANGED << inputs, submitted, outdir, globbed, gi, pdf_files, si, task, http, sent,
                    sleeps, batches, writes, clobbered, log, notices, runVars >>

\* lines 141-146 and the calls up to process(): parse --n, then go on or die
ParseArgs ==
    /\ pc = "parse"
    /\ IF ~args_n.given
         THEN n' = DefaultN /\ pc' = "glob"
         ELSE IF ~IsIntLiteral(args_n.text)
           THEN n' = n /\ pc' = "glob"               \* ValueError caught, n keeps 1
           ELSE /\ n' = IntOf(args_n.text)
                /\ pc' = IF IntOf(args_n.text) > 0 THEN "glob" ELSE "crashed"
    /\ UNCHANGED << inputs, submitted, outdir, globbed, gi, pdf_files, si, task, http, sent,
                    sleeps, batches, writes, clobbered, log, notices,
                    runVars >>

\* ---------------------------------------------------------------- process
\* line 44: what glob.glob(input + "/*.pdf") finds; a directory that is
\* missing or cannot be listed gives the empty list, not an exception
GlobFound ==
    IF input_exists
      THEN { PathJoin(InputDir, nm) : nm \in { m \in indir : GlobMatches(m) } }
      ELSE {}

\* line 44: glob.glob(input + "/*.pdf"), in the order the directory gives
Glob ==
    /\ pc = "glob"
    /\ globbed' \in Orderings(GlobFound)
    /\ gi' = 1
    /\ pdf_files' = <<>>
    /\ pc' = "loop"
    /\ UNCHANGED << inputs, submitted, outdir, n, si, task, http, sent, sleeps, batches, writes,
                    clobbered, log, notices,
                    runVars >>

\* line 58: ProcessPoolExecutor(max_workers=n) raises ValueError for n <= 0
PoolCreated == n > 0

\* variant: the batch is handed over one file late
BatchFull_OneLate(files) == Len(files) > config.batch_size

\* line 47: the batch under construction is full
BatchFull(files) == Len(files) = config.batch_size

\* lines 44-48 and 56-58: one iteration of the for loop, entering
\* process_batch and creating its pool when the batch is full
LoopStep ==
    /\ pc = "loop"
    /\ gi <= Len(globbed)
    /\ LET grown == Append(pdf_files, globbed[gi])
       IN  /\ pdf_files' = grown
           /\ gi' = gi + 1
           /\ IF BatchFull(grown)
                THEN /\ pc' = IF PoolCreated THEN "batch" ELSE "crashed"
                     /\ si' = 1
                     /\ batches' = Append(batches, grown)
                ELSE /\ pc' = "loop"
                     /\ UNCHANGED << si, batches >>
    /\ UNCHANGED << inputs, submitted, outdir, n, globbed, task, http, sent, sleeps, writes,
                    clobbered, log, notices,
                    runVars >>

\* lines 51-53 with the pool creation of line 58, or the return to __main__
\* (lines 160-161)
LoopEnd ==
    /\ pc = "loop"
    /\ gi > Len(globbed)
    /\ IF Len(pdf_files) > 0
         THEN /\ pc' = IF PoolCreated THEN "last" ELSE "crashed"
              /\ si' = 1
              /\ batches' = Append(batches, pdf_files)
         ELSE /\ pc' = "summary"
              /\ UNCHANGED << si, batches >>
    /\ UNCHANGED << inputs, submitted, outdir, n, globbed, gi, pdf_files, task, http, sent,
                    sleeps, writes, clobbered, log, notices,
                    runVars >>

\* ---------------------------------------------------------- process_batch
\* lines 59-60: executor.submit of the next file of the batch
Submit ==
    /\ pc \in {"batch", "last"}
    /\ si <= Len(pdf_files)
    /\ task' = [task EXCEPT ![pdf_files[si]] = "queued"]
    /\ submitted' = Append(submitted, pdf_files[si])
    /\ si' = si + 1
    /\ UNCHANGED << inputs, outdir, pc, n, globbed, gi, pdf_files, http, sent, sleeps,
                    batches, writes, clobbered, log, notices,
                    runVars >>

\* variant: shutdown(wait=False)
ShutdownWait_NoWait == TRUE

\* variant: the wait ends only when every call has an output
ShutdownWait_OnlySuccess ==
    \A f \in Range(pdf_files) : task[f] \in {"written", "skipped"}

\* what leaving the with block waits for: every submitted call has ended
ShutdownWait == \A f \in Range(pdf_files) : task[f] \in Terminal

\* variant: line 49 is missing, the list is not emptied after a full batch
Shutdown_KeepFiles ==
    /\ pc \in {"batch", "last"}
    /\ si > Len(pdf_files)
    /\ ShutdownWait
    /\ pc' = IF pc = "batch" THEN "loop" ELSE "summary"
    /\ UNCHANGED << inputs, submitted, outdir, n, globbed, gi, pdf_files, si, task,
                    http, sent, sleeps, batches, writes, clobbered, log, notices,
                    runVars >>

\* line 58, leaving the with block: executor.shutdown(wait=True); then line 49
\* for a full batch, or the return to __main__ for the last one
Shutdown ==
    /\ pc \in {"batch", "last"}
    /\ si > Len(pdf_files)
    /\ ShutdownWait
    /\ pc' = IF pc = "batch" THEN "loop" ELSE "summary"
    /\ pdf_files' = IF pc = "batch" THEN <<>> ELSE pdf_files
    /\ UNCHANGED << inputs, submitted, outdir, n, globbed, gi, si, task, http, sent, sleeps,
                    batches, writes, clobbered, log, notices,
                    runVars >>

\* ------------------------------------------------------------ process_pdf
\* variant: the existence check looks for the name without the output directory
AlreadyProduced_NoJoin(f) == IsFile(SplitextRoot(NtBasename(f)) \o TeiExt)

\* variant: the existence check looks for the source's own base name
AlreadyProduced_SourceName(f) == IsFile(PathJoin(OutputDir, NtBasename(f)))

\* lines 65-67: the TEI file of this source is already there
AlreadyProduced(f) == IsFile(filename[f])

\* variant: the pool starts a process per submitted call
WorkerFree_Unbounded == TRUE

\* line 58: ProcessPoolExecutor(max_workers=n) runs at most n calls at a time
WorkerFree == Cardinality(InFlight) < n

\* res.text of the answer to the latest POST for f in a run: the service
\* gives the same source the same text in every run
Body(f) == << "tei", f, http[f] >>

\* variant: the header and the citation flag are taken for each other
TheData_Swapped ==
    (IF flags.generateIDs THEN {<<"generateIDs", "1">>} ELSE {})
      \cup (IF flags.consolidate_citations THEN {<<"consolidateHeader", "1">>} ELSE {})
      \cup (IF flags.consolidate_header THEN {<<"consolidateCitations", "1">>} ELSE {})

\* lines 87-93: the_data, as the set of its (key, value) items
TheData ==
    (IF flags.generateIDs THEN {<<"generateIDs", "1">>} ELSE {})
      \cup (IF flags.consolidate_header THEN {<<"consolidateHeader", "1">>} ELSE {})
      \cup (IF flags.consolidate_citations THEN {<<"consolidateCitations", "1">>} ELSE {})

\* lines 65-100: entry of process_pdf up to the blocking POST
Entry(f) ==
    IF AlreadyProduced(f)
      THEN /\ task' = [task EXCEPT ![f] = "skipped"]
           /\ UNCHANGED << http, sent, sent >>
      ELSE /\ task' = [task EXCEPT ![f] = "requesting"]
           /\ http' = [http EXCEPT ![f] = @ + 1]
           /\ sent' = sent \cup {[pdf_file |-> f, data |-> TheData]}

\* a pool worker takes the queued call of f and runs it up to the POST
StartPdf(f) ==
    /\ task[f] = "queued"
    /\ WorkerFree
    /\ Entry(f)
    /\ UNCHANGED << inputs, outdir, mainVars, sleeps, writes, clobbered, log,
                    notices, runVars >>

\* variant: the test of line 109 is missing, every answer but 503 is written
Respond_WriteAlways(f, s) ==
    /\ task[f] = "requesting"
    /\ IF s = StatusOverload
         THEN /\ task' = [task EXCEPT ![f] = "sleeping"]
              /\ UNCHANGED << outdir, writes, clobbered >>
         ELSE /\ task' = [task EXCEPT ![f] = IF s = StatusOK THEN "writing" ELSE "failed"]
              /\ outdir' = [p \in DOMAIN outdir \cup {filename[f]} |->
                               IF p = filename[f] THEN Truncated ELSE outdir[p]]
              /\ writes' = writes + 1
              /\ clobbered' = IF IsFile(filename[f])
                                THEN clobbered \cup {filename[f]}
                                ELSE clobbered
    /\ UNCHANGED << inputs, mainVars, http, sent, sleeps, log, notices, runVars >>

\* lines 95-117: the POST returns status s; the call runs on to its next
\* blocking point (the sleep, the write into the opened file) or to its end
Respond(f, s) ==
    /\ task[f] = "requesting"
    /\ IF s = StatusOverload
         THEN /\ task' = [task EXCEPT ![f] = "sleeping"]
              /\ UNCHANGED << outdir, writes, clobbered, log, notices >>
         ELSE IF s = StatusOK
           THEN /\ task' = [task EXCEPT ![f] = "writing"]
                /\ outdir' = [p \in DOMAIN outdir \cup {filename[f]} |->
                                 IF p = filename[f] THEN Truncated ELSE outdir[p]]
                /\ writes' = writes + 1
                /\ clobbered' = IF IsFile(filename[f])
                                  THEN clobbered \cup {filename[f]}
                                  ELSE clobbered
                /\ UNCHANGED << log, notices >>
           ELSE /\ task' = [task EXCEPT ![f] = "failed"]
                /\ notices' = notices (+) SetToBag({<<f, s>>})
                /\ log' = IF error_log THEN log (+) SetToBag({<<f, s>>}) ELSE log
                /\ UNCHANGED << outdir, writes, clobbered >>
    /\ UNCHANGED << inputs, mainVars, http, sent, sleeps, runVars >>

\* variant: the exception of the POST reaches the main program
PostRaises_Abort(f) ==
    /\ task[f] = "requesting"
    /\ task' = [task EXCEPT ![f] = "raised"]
    /\ pc' = "crashed"
    /\ UNCHANGED << inputs, submitted, outdir, n, globbed, gi, pdf_files, si, batches, http, sent,
                    sleeps, writes, clobbered, log, notices,
                    runVars >>

\* lines 95-100: self.post raises (connection refused, timeout, ...); nothing
\* in process_pdf catches it, the call ends with the exception
PostRaises(f) ==
    /\ task[f] = "requesting"
    /\ task' = [task EXCEPT ![f] = "raised"]
    /\ UNCHANGED << inputs, outdir, mainVars, http, sent, sleeps, writes, clobbered,
                    log, notices, runVars >>

\* lines 112-113: tei_file.write(res.text) and the close of the with block
WriteClose(f) ==
    /\ task[f] = "writing"
    /\ outdir' = [outdir EXCEPT ![filename[f]] = Body(f)]
    /\ task' = [task EXCEPT ![f] = "written"]
    /\ UNCHANGED << inputs, mainVars, http, sent, sleeps, writes, clobbered, log,
                    notices, runVars >>

\* line 108: the recursive call binds RetryCallArgs of the ProcessPdfArity
\* required parameters; with any missing it is a TypeError
RetryCall(f) ==
    IF RetryCallArgs = ProcessPdfArity
      THEN Entry(f)
      ELSE /\ task' = [task EXCEPT ![f] = "raised"]
           /\ UNCHANGED << http, sent, sent >>

\* lines 107-108: the sleep is over, process_pdf calls itself
Wake(f) ==
    /\ task[f] = "sleeping"
    /\ sleeps' = [sleeps EXCEPT ![f] = @ + 1]
    /\ RetryCall(f)
    /\ UNCHANGED << inputs, outdir, mainVars, writes, clobbered, log, notices,
                    runVars >>

\* ------------------------------------------------------------- a new run
\* the program has printed its runtime and exited; it is started again with
\* the same command line on the same directories
Rerun ==
    /\ pc = "summary"
    /\ run < MaxRuns
    /\ run' = run + 1
    /\ prevOut' = outdir
    /\ pc' = "parse"
    /\ n' = InitialN
    /\ globbed' = <<>>
    /\ gi' = 1
    /\ pdf_files' = <<>>
    /\ si' = 1
    /\ task' = NoTasks
    /\ http' = Zero
    /\ sent' = {}
    /\ sleeps' = Zero
    /\ batches' = <<>>
    /\ submitted' = <<>>
    /\ writes' = 0
    /\ notices' = EmptyBag
    /\ clobbered' = {}
    /\ UNCHANGED << inputs, outdir, log >>

Worker ==
    \E f \in AllPaths :
        \/ StartPdf(f)
        \/ \E s \in Statuses : Respond(f, s)
        \/ PostRaises(f)
        \/ WriteClose(f)
        \/ Wake(f)

Main == ParseArgs \/ Glob \/ LoopStep \/ LoopEnd \/ Submit \/ Shutdown

\* the steps of one run of the program
RunNext == Main \/ Worker

Next == RunNext \/ Rerun

Spec == Init /\ [][Next]_vars

\* one run in which the pool runs every submitted call, every POST returns
\* or raises, every sleep ends and the main program keeps running
FairSpec == Init /\ [][RunNext]_vars /\ WF_vars(RunNext)

\* one run with any combination of the option flags
SpecOptions == InitOptions /\ [][RunNext]_vars

\* =================================================================== claims
Discovered == Range(globbed)

RunFinished == pc = "summary"

\* C1 (as stated): when a second run over the same directories has finished,
\* it has opened no output file for writing, every discovered file was
\* Skipped, and the output directory is what the first run left.
C1_SecondRunAllSkipped ==
    (run = 2 /\ RunFinished) =>
        /\ writes = 0
        /\ outdir = prevOut
        /\ \A f \in Discovered : task[f] = "skipped"

\* C1 (amended): in a later run every file whose output path exists as a
\* regular file after the previous run is Skipped without a request and its
\* output keeps its content; when that is so for every discovered file the
\* run performs zero writes and leaves the output directory as it was.
C1_RerunSkipsProduced ==
    run >= 2 =>
        /\ \A f \in AllPaths :
              filename[f] \in DOMAIN prevOut =>
                  /\ task[f] \in {"none", "queued", "skipped"}
                  /\ http[f] = 0
                  /\ IsFile(filename[f])
                  /\ outdir[filename[f]] = prevOut[filename[f]]
        /\ (pc \notin {"parse", "glob"}
              /\ \A f \in Discovered : filename[f] \in DOMAIN prevOut)
              => (writes = 0 /\ outdir = prevOut)

C1_Witness ==
    /\ run = 2
    /\ RunFinished
    /\ Len(globbed) >= 2
    /\ writes = 0
    /\ \A f \in Discovered :
          /\ task[f] = "skipped"
          /\ outdir[filename[f]] # OldContent
    /\ outdir = prevOut

\* C2: a process_pdf call that starts while its output path is a regular
\* file ends as Skipped in that step, issues no POST and leaves the output
\* directory untouched; a Skipped call has issued no POST.
C2_SkipOnExisting ==
    [][ \A f \in AllPaths :
          (task[f] = "queued" /\ task'[f] # "queued" /\ IsFile(filename[f])) =>
              /\ task'[f] = "skipped"
              /\ http' = http
              /\ outdir' = outdir
              /\ writes' = writes ]_vars

C2_Witness ==
    \E f \in AllPaths :
        /\ run = 1
        /\ task[f] = "skipped"
        /\ http[f] = 0
        /\ outdir[filename[f]] = OldContent

\* C3: no write ever targets an output path that exists as a regular file at
\* the moment it is opened for writing.
C3_NeverOverwrites == clobbered = {}

\* C4: when process() returns with batch size B >= 1 and N discovered files,
\* process_batch was called ceil(N/B) times, every call but the last with B
\* files, the last with N mod B files (B when B divides N), none when N = 0.
C4_BatchPartition ==
    (RunFinished /\ config.batch_size >= 1) =>
        LET N == Len(globbed)
            B == config.batch_size
            K == Len(batches)
        IN  /\ K = (N + B - 1) \div B
            /\ \A k \in 1..(K - 1) : Len(batches[k]) = B
            /\ K > 0 => Len(batches[K]) = (IF N % B = 0 THEN B ELSE N % B)
            /\ N = 0 => batches = <<>>
            /\ N < B /\ N > 0 => (K = 1 /\ Len(batches[1]) = N)

C4_Witness ==
    /\ RunFinished
    /\ config.batch_size = 2
    /\ Len(globbed) = 3
    /\ Len(batches) = 2
    /\ Len(batches[1]) = 2
    /\ Len(batches[2]) = 1

\* C5: every call that is queued or running belongs to the batch of the
\* latest process_batch call, whose pool is still open, and every call of an
\* earlier batch has reached a terminal state.
C5_BatchBoundary ==
    /\ \A f \in AllPaths :
          task[f] \in Active \cup {"queued"} =>
              /\ pc \in {"batch", "last"}
              /\ batches # <<>>
              /\ f \in Range(batches[Len(batches)])
    /\ \A k \in 1..(Len(batches) - 1) :
          \A f \in Range(batches[k]) : task[f] \in Terminal

C5_Witness ==
    /\ Len(batches) = 2
    /\ \E f \in Range(batches[2]) : task[f] \in Active
    /\ \E f \in Range(batches[1]) : task[f] = "failed"

\* C6: with concurrency n >= 1 at most n process_pdf calls are in flight,
\* also when the batch is larger than n.
C6_ConcurrencyBound == n >= 1 => Cardinality(InFlight) <= n

C6_Witness ==
    /\ n = 2
    /\ Len(pdf_files) = 3
    /\ Cardinality(InFlight) = 2
    /\ \E f \in Range(pdf_files) : task[f] = "queued"

\* C7: once files are dispatched no per-file outcome aborts the run, and when
\* process() returns every discovered file has been submitted and has reached
\* its own terminal outcome, a written one having its output file.
C7_NonInterference ==
    /\ pc = "crashed" => (batches = <<>> /\ task = NoTasks)
    /\ RunFinished =>
          \A f \in Discovered :
              /\ task[f] \in Terminal
              /\ task[f] = "written" => IsFile(filename[f])

C7_Witness ==
    /\ RunFinished
    /\ run = 1
    /\ Len(batches) = 2
    /\ \E f \in Range(batches[1]) : task[f] = "failed"
    /\ \E f \in Range(batches[1]) : task[f] = "raised"
    /\ \E f \in Range(batches[2]) :
          task[f] = "written" /\ outdir[filename[f]] = Body(f)

\* C8: after the sleep that follows a 503 the same Job is retried from step
\* 1: it is Skipped if its output has appeared, else a second POST is sent.
C8_RetryAfterOverload ==
    \A f \in AllPaths :
        sleeps[f] >= 1 => (http[f] >= 2 \/ task[f] = "skipped")

\* C9: with --n 0 or a non-numeric --n the run goes on with concurrency 10.
C9_ConcurrencyFallback ==
    (/\ pc # "parse"
     /\ args_n.given
     /\ (~IsIntLiteral(args_n.text) \/ IntOf(args_n.text) <= 0))
        => (n = DefaultN /\ pc # "crashed")

\* C11: when the input directory is missing the run is aborted by discovery
\* instead of going on as with an empty directory.
C11_DiscoveryAborts ==
    (~input_exists /\ pc \notin {"parse", "glob"}) => pc = "crashed"

\* C10: a run that passed the command line reaches the runtime summary,
\* whatever the outcomes of its files.
C10_RunTerminates == (pc = "glob") ~> RunFinished

C10_Witness ==
    /\ RunFinished
    /\ \E f \in Discovered : task[f] = "failed"
    /\ \E f \in Discovered : task[f] = "raised"
    /\ \E f \in Discovered : task[f] = "skipped"

\* number of entries of bag b that were made for source path f
EntriesFor(b, f) ==
    LET E == { e \in BagToSet(b) : e[1] = f }
        Sum[S \in SUBSET E] ==
            IF S = {} THEN 0
            ELSE LET e == CHOOSE x \in S : TRUE
                 IN  CopiesIn(e, b) + Sum[S \ {e}]
    IN  Sum[E]

\* a call that ended without writing an output and without skipping
EndedWithoutOutput(f) == task[f] \in {"failed", "raised"}

\* C12: when the first run has finished, with error-log mode on every file
\* that ended without an output has exactly one errors.log entry, and with
\* error-log mode off the log is empty and the file has a console notice.
C12_OneLogEntryPerFailure ==
    (run = 1 /\ RunFinished) =>
        /\ error_log =>
              \A f \in Discovered :
                  EndedWithoutOutput(f) => EntriesFor(log, f) = 1
        /\ ~error_log =>
              /\ log = EmptyBag
              /\ \A f \in Discovered :
                    EndedWithoutOutput(f) => EntriesFor(notices, f) >= 1

\* C13: no process_pdf call is Skipped on an output file that has been
\* created but not yet written, i.e. a partial file is never taken for a
\* completed one by the existence check.
C13_NoSkipOnPartialFile ==
    \A f \in AllPaths :
        task[f] = "skipped" => outdir[filename[f]] # Truncated

\* C14: every call that ended without an output has a console notice or a
\* log entry, and no call ended by an exception that nothing handles.
C14_FailuresSurface ==
    \A f \in AllPaths :
        /\ EndedWithoutOutput(f) =>
              (EntriesFor(notices, f) >= 1 \/ EntriesFor(log, f) >= 1)
        /\ task[f] # "raised"

\* C15: a concurrency value <= 0 is rejected as an error before dispatch:
\* the program has died without calling process_batch and no process_pdf
\* call was submitted or started.
C15_InvalidConcurrencyRejected ==
    (n <= 0 /\ pc # "parse") =>
        /\ pc = "crashed"
        /\ batches = <<>>
        /\ task = NoTasks
        /\ http = Zero

C15_Witness ==
    /\ args_n.given
    /\ IsIntLiteral(args_n.text)
    /\ IntOf(args_n.text) < 0
    /\ n = IntOf(args_n.text)
    /\ pc = "crashed"
    /\ \E nm \in indir : GlobMatches(nm)
    /\ task = NoTasks

RECURSIVE Flatten(_)
Flatten(ss) == IF ss = <<>> THEN <<>> ELSE Head(ss) \o Flatten(Tail(ss))

IsPrefix(s, t) == Len(s) <= Len(t) /\ SubSeq(t, 1, Len(s)) = s

\* C16: the files submitted so far, and the batches handed to process_batch
\* so far laid end to end, are an initial part of the discovery sequence
\* (contiguous slices in discovery order, nothing submitted twice), and when
\* process() returns they are the whole of it (nothing dropped).
C16_DispatchCoverage ==
    pc \notin {"parse", "glob"} =>
        /\ IsPrefix(submitted, globbed)
        /\ IsPrefix(Flatten(batches), globbed)
        /\ IsPrefix(submitted, Flatten(batches))
        /\ RunFinished =>
              /\ submitted = globbed
              /\ Flatten(batches) = globbed

C16_Witness ==
    /\ RunFinished
    /\ Len(globbed) = 3
    /\ Len(batches) = 2
    /\ submitted = globbed
    /\ batches[1] = SubSeq(globbed, 1, 2)
    /\ batches[2] = SubSeq(globbed, 3, 3)

\* the sources of this run that were answered 200 and map to output path p
Answered200(p) ==
    { f \in AllPaths : filename[f] = p /\ task[f] \in {"writing", "written"} }

\* C17: an output path for which no source was answered 200 in this run is
\* as it was before the run: absent if it was absent, else with the content
\* it had; so a file is present only if it was there before or a 200 came.
C17_OutputMarksSuccess ==
    \A p \in DOMAIN outdir \cup DOMAIN prevOut \cup { filename[f] : f \in AllPaths } :
        Answered200(p) = {} =>
            /\ p \in DOMAIN outdir <=> p \in DOMAIN prevOut
            /\ p \in DOMAIN outdir => outdir[p] = prevOut[p]

C17_Witness ==
    /\ RunFinished
    /\ \E f \in Discovered : task[f] = "failed" /\ ~IsFile(filename[f])
    /\ \E f \in Discovered : task[f] = "raised" /\ ~IsFile(filename[f])
    /\ \E f \in Discovered :
          /\ task[f] = "written"
          /\ filename[f] \notin DOMAIN prevOut
          /\ outdir[filename[f]] = Body(f)

\* C18: two process_pdf calls that are in flight at the same time never
\* have the same output path.
C18_DistinctTargets ==
    \A f, g \in InFlight : f # g => filename[f] # filename[g]

\* C19: the data fields of every POST sent are generateIDs=1,
\* consolidateHeader=1 and consolidateCitations=1 for exactly the flags that
\* are true, and nothing else.
C19_RequestOptions ==
    \A r \in sent :
        /\ <<"generateIDs", "1">> \in r.data <=> flags.generateIDs
        /\ <<"consolidateHeader", "1">> \in r.data <=> flags.consolidate_header
        /\ <<"consolidateCitations", "1">> \in r.data <=> flags.consolidate_citations
        /\ \A item \in r.data :
              /\ item[1] \in {"generateIDs", "consolidateHeader", "consolidateCitations"}
              /\ item[2] = "1"

C19_Witness ==
    /\ flags.generateIDs /\ ~flags.consolidate_header /\ flags.consolidate_citations
    /\ \E r \in sent :
          /\ r.data = {<<"generateIDs", "1">>, <<"consolidateCitations", "1">>}
          /\ sleeps[r.pdf_file] = 1
          /\ http[r.pdf_file] = 1
    /\ \E r \in sent : task[r.pdf_file] = "written"

====
